---- MODULE Spec2Model ----
(***************************************************************************)
(* Model of src/video_frame_limit.py: the model introspector               *)
(* (_safe_getattr, _get_model_info) and the frame budgeter                 *)
(* (OliVideoFrameLimit.execute).                                           *)
(*                                                                         *)
(* Both are functions of their arguments; a behaviour is one call: Init    *)
(* draws the arguments, the action runs the whole function and records     *)
(* how it ended (returned value or propagated exception).                  *)
(*                                                                         *)
(* Units.  TLC integers are 32 bit, so quantities are carried in units     *)
(* that keep every exact quotient of the code exact:                       *)
(*   duration          tenths of a second  (dur10 / 10)                    *)
(*   safety_margin     percent             (margin / 100)                  *)
(*   total_memory      MiB                 (vram * 2^20 bytes)             *)
(*   tensor numel      Mi elements         (numel * 2^20)                  *)
(***************************************************************************)
EXTENDS Integers, Sequences, FiniteSets, TLC

(***************************************************************************)
(* Bounds of the input space.                                              *)
(***************************************************************************)
MaxFps == 3
MaxDur10 == 5
MaxVramLog2 == 13

(***************************************************************************)
(* Program constants.                                                      *)
(***************************************************************************)
TENSOR_COPIES == 5
TEMPORAL_COMPRESSION == 4
DIM_MIN == 64
DIM_MAX == 32768
FALLBACK_DIM == 1536
ASSUMED_LAYERS == 28

ACCESSORS == <<"model", "diffusion_model">>
SEARCH_ATTRS == <<"diffusion_model", "transformer", "model", "net", "backbone">>
DIM_ATTRS == <<"hidden_size", "dim", "embed_dim", "hidden_dim",
               "d_model", "inner_dim", "width", "model_dim">>
CFG_ATTRS == <<"config", "model_config">>
standards == <<256, 512, 768, 1024, 1280, 1536, 2048, 3072, 4096, 5120, 8192>>

(***************************************************************************)
(* Python values and objects.                                              *)
(*   Value: [t, v] with t in "none" | "int" | "float" | "str" | "obj";     *)
(*          v is the integer, or the heap id of the object.                *)
(*   Slot (how one attribute name resolves on one object):                 *)
(*     "missing"  not defined anywhere                                     *)
(*     "inst"     entry of the instance __dict__                           *)
(*     "cls"      plain (non callable) class attribute                     *)
(*     "prop"     property whose getter returns val                        *)
(*     "raise"    property whose getter raises exc                         *)
(*     "hook"     only produced by the class's __getattr__ hook            *)
(***************************************************************************)
None == [t |-> "none", v |-> 0]
IntV(n) == [t |-> "int", v |-> n]
FloatV(n) == [t |-> "float", v |-> n]
StrV == [t |-> "str", v |-> 0]
Obj(id) == [t |-> "obj", v |-> id]

Missing == [kind |-> "missing", val |-> None, exc |-> ""]
Inst(x) == [kind |-> "inst", val |-> x, exc |-> ""]
Cls(x) == [kind |-> "cls", val |-> x, exc |-> ""]
Prop(x) == [kind |-> "prop", val |-> x, exc |-> ""]
Raise(e) == [kind |-> "raise", val |-> None, exc |-> e]
Hook(x) == [kind |-> "hook", val |-> x, exc |-> ""]

Range(s) == {s[i] : i \in DOMAIN s}
\* How name resolves on object id: an object lists only the names it defines.
SlotOf(heap, id, name) ==
    IF name \in DOMAIN heap[id].slots THEN heap[id].slots[name] ELSE Missing

\* getattr(obj, name, None): the normal lookup.  An AttributeError (also one
\* raised by a property getter) yields the default; any other exception
\* propagates to the caller.  A value that is no object has no such attribute.
getattr(heap, x, name) ==
    IF x.t # "obj" THEN [raised |-> FALSE, exc |-> "", val |-> None]
    ELSE LET s == SlotOf(heap, x.v, name) IN
         IF s.kind = "raise" /\ s.exc # "AttributeError"
         THEN [raised |-> TRUE, exc |-> s.exc, val |-> None]
         ELSE [raised |-> FALSE, exc |-> "",
               val |-> IF s.kind \in {"missing", "raise"} THEN None ELSE s.val]

\* _safe_getattr(obj, attr): reads the instance __dict__ and the class
\* attributes only; a raising property getter is swallowed, the __getattr__
\* hook is never consulted.  A value that is no object has no such attribute.
_safe_getattr(heap, x, name) ==
    IF x.t # "obj" THEN None
    ELSE LET s == SlotOf(heap, x.v, name) IN
         IF s.kind \in {"inst", "cls", "prop"} THEN s.val ELSE None

\* type(obj).__name__
TypeName(heap, x) ==
    IF x.t = "obj" THEN heap[x.v].cls
    ELSE IF x.t = "none" THEN "NoneType" ELSE x.t

\* bool(x), as `if cfg:` evaluates it: "true", "false" or "raises".
Truth(heap, x) ==
    CASE x.t = "none" -> "false"
      [] x.t = "obj" -> heap[x.v].truth
      [] x.t = "str" -> "true"
      [] OTHER -> IF x.v = 0 THEN "false" ELSE "true"

(***************************************************************************)
(* Exact integer helpers.                                                  *)
(***************************************************************************)
Max(a, b) == IF a >= b THEN a ELSE b
Min(a, b) == IF a <= b THEN a ELSE b
Abs(a) == IF a >= 0 THEN a ELSE 0 - a
Mi == 1048576

\* <<q, r>> with a * b = q * c + r and 0 <= r < c, for a, b >= 0 and c > 0,
\* computed by doubling so that no intermediate leaves 32 bits when q fits.
RECURSIVE MulDivQR(_, _, _)
MulDivQR(a, b, c) ==
    IF b = 0 THEN <<0, 0>>
    ELSE LET h == MulDivQR(a, b \div 2, c)
             add == IF b % 2 = 1 THEN a ELSE 0
             rr == ((2 * h[2]) % c) + (add % c)
         IN <<(2 * h[1]) + ((2 * h[2]) \div c) + (add \div c) + (rr \div c), rr % c>>

\* floor(a * b / c)
MulDivFloor(a, b, c) == MulDivQR(a, b, c)[1]

\* floor(sqrt(x)) by bisection on [lo, hi], lo * lo <= x < (hi + 1) ^ 2.
RECURSIVE IsqrtIn(_, _, _)
IsqrtIn(x, lo, hi) ==
    IF lo >= hi THEN lo
    ELSE LET mid == (lo + hi + 1) \div 2 IN
         IF mid * mid <= x THEN IsqrtIn(x, mid, hi) ELSE IsqrtIn(x, lo, mid - 1)

Isqrt(x) == IsqrtIn(x, 0, 46340)

\* Python round() of the rational n / d, d > 0: nearest integer, ties to even.
RoundHalfEven(n, d) ==
    LET q == n \div d
        r == n - q * d
    IN IF 2 * r < d THEN q
       ELSE IF 2 * r > d THEN q + 1
       ELSE IF q % 2 = 0 THEN q ELSE q + 1

RECURSIVE SumSeq(_)
SumSeq(s) == IF s = <<>> THEN 0 ELSE Head(s) + SumSeq(Tail(s))

(***************************************************************************)
(* _get_model_info                                                         *)
(***************************************************************************)
\* Unwrap ModelPatcher layers: for accessor in ("model", "diffusion_model").
\* Every accessor is applied to the current m, which the previous accessor
\* may already have replaced.
RECURSIVE Unwrap(_, _, _)
Unwrap(heap, m, i) ==
    IF i > Len(ACCESSORS) THEN [raised |-> FALSE, exc |-> "", m |-> m]
    ELSE LET g == getattr(heap, m, ACCESSORS[i]) IN
         IF g.raised THEN [raised |-> TRUE, exc |-> g.exc, m |-> m]
         ELSE Unwrap(heap, IF g.val # None THEN g.val ELSE m, i + 1)

\* search = [m] + every non-None sub-object that is not m itself.
RECURSIVE BuildSearch(_, _, _, _)
BuildSearch(heap, m, search, i) ==
    IF i > Len(SEARCH_ATTRS) THEN [raised |-> FALSE, exc |-> "", search |-> search]
    ELSE LET g == getattr(heap, m, SEARCH_ATTRS[i]) IN
         IF g.raised THEN [raised |-> TRUE, exc |-> g.exc, search |-> search]
         ELSE BuildSearch(heap, m,
                          IF g.val # None /\ g.val # m
                          THEN Append(search, g.val) ELSE search,
                          i + 1)

\* The plausibility range left out: any integer counts as a hit.
IsDim_anyint(val) == val.t = "int"

\* isinstance(val, int) and 64 <= val <= 32768
IsDim(val) == val.t = "int" /\ DIM_MIN <= val.v /\ val.v <= DIM_MAX

\* found[key] = val on an insertion-ordered dict: a key already present keeps
\* its position and takes the new value.
DictSet(found, key, val) ==
    IF \E i \in DOMAIN found : found[i].key = key
    THEN [i \in DOMAIN found |->
            IF found[i].key = key THEN [key |-> key, val |-> val] ELSE found[i]]
    ELSE Append(found, [key |-> key, val |-> val])

\* for attr in DIM_ATTRS: on x, under the key prefix (obj_name, cfg_attr).
RECURSIVE ScanDims(_, _, _, _, _, _)
ScanDims(heap, x, obj_name, cfg_attr, found, i) ==
    IF i > Len(DIM_ATTRS) THEN found
    ELSE LET val == _safe_getattr(heap, x, DIM_ATTRS[i]) IN
         ScanDims(heap, x, obj_name, cfg_attr,
                  IF IsDim(val)
                  THEN DictSet(found, <<obj_name, cfg_attr, DIM_ATTRS[i]>>, val.v)
                  ELSE found,
                  i + 1)

\* for cfg_attr in ("config", "model_config"): if cfg: scan cfg.
RECURSIVE ScanCfgs(_, _, _, _, _)
ScanCfgs(heap, obj, obj_name, found, j) ==
    IF j > Len(CFG_ATTRS) THEN [raised |-> FALSE, exc |-> "", found |-> found]
    ELSE LET cfg == _safe_getattr(heap, obj, CFG_ATTRS[j])
             b == Truth(heap, cfg)
         IN IF b = "raises"
            THEN [raised |-> TRUE, exc |-> "RuntimeError", found |-> found]
            ELSE ScanCfgs(heap, obj, obj_name,
                          IF b = "true"
                          THEN ScanDims(heap, cfg, obj_name, CFG_ATTRS[j], found, 1)
                          ELSE found,
                          j + 1)

\* for obj in search: direct attributes first, then the two config objects.
RECURSIVE ScanObjs(_, _, _, _)
ScanObjs(heap, search, found, k) ==
    IF k > Len(search) THEN [raised |-> FALSE, exc |-> "", found |-> found]
    ELSE LET obj == search[k]
             obj_name == TypeName(heap, obj)
             c == ScanCfgs(heap, obj, obj_name,
                           ScanDims(heap, obj, obj_name, "", found, 1), 1)
         IN IF c.raised THEN c ELSE ScanObjs(heap, search, c.found, k + 1)

\* min(standards, key = lambda x: abs(x - est)): the first of the nearest.
RECURSIVE NearestFrom(_, _, _)
NearestFrom(est, best, i) ==
    IF i > Len(standards) THEN best
    ELSE NearestFrom(est,
                     IF Abs(standards[i] - est) < Abs(best - est)
                     THEN standards[i] ELSE best,
                     i + 1)

NearestStandard(est) == NearestFrom(est, standards[1], 2)

\* est = int((n / (12 * 28)) ** 0.5), n = nMi * 2^20 elements.
EstimateDim(nMi) ==
    NearestStandard(Isqrt(MulDivFloor(nMi, Mi, 12 * ASSUMED_LAYERS)))

\* The fallback: sum(p.numel() for p in m.parameters()) inside try/except.
ParamEstimate(heap, m, model_name) ==
    LET p == IF m.t = "obj" THEN heap[m.v].params
             ELSE [kind |-> "missing", numels |-> <<>>]
    IN IF p.kind = "list"
       THEN LET hd == EstimateDim(SumSeq(p.numels)) IN
            [raised |-> FALSE, exc |-> "", model_name |-> model_name,
             hidden_dim |-> IntV(hd),
             debug_lines |-> <<[key |-> <<"param count estimate", "", "">>,
                                val |-> hd]>>]
       ELSE [raised |-> FALSE, exc |-> "", model_name |-> model_name,
             hidden_dim |-> None, debug_lines |-> <<>>]

Raised(e) ==
    [raised |-> TRUE, exc |-> e, model_name |-> "", hidden_dim |-> None,
     debug_lines |-> <<>>]

_get_model_info(heap, model) ==
    IF model = None
    THEN [raised |-> FALSE, exc |-> "", model_name |-> "", hidden_dim |-> None,
          debug_lines |-> <<>>]
    ELSE LET u == Unwrap(heap, model, 1) IN
         IF u.raised THEN Raised(u.exc)
         ELSE LET m == u.m
                  model_name == TypeName(heap, m)
                  b == BuildSearch(heap, m, <<m>>, 1)
              IN IF b.raised THEN Raised(b.exc)
                 ELSE LET f == ScanObjs(heap, b.search, <<>>, 1) IN
                      IF f.raised THEN Raised(f.exc)
                      ELSE IF f.found # <<>>
                      THEN [raised |-> FALSE, exc |-> "",
                            model_name |-> model_name,
                            hidden_dim |-> IntV(f.found[1].val),
                            debug_lines |-> f.found]
                      ELSE ParamEstimate(heap, m, model_name)

(***************************************************************************)
(* OliVideoFrameLimit.execute                                              *)
(***************************************************************************)
\* requested_frames without the reference frame.
requested_frames_noref(dur10, fps) == Max(1, RoundHalfEven(dur10 * fps, 10))

\* requested_frames = max(1, round(duration * fps) + 1)
requested_frames(dur10, fps) == Max(1, RoundHalfEven(dur10 * fps, 10) + 1)

\* spatial_tokens = (width // 8) * (height // 8)
spatial_tokens(width, height) == (width \div 8) * (height \div 8)

\* snap rounding up to the next aligned count instead of down.
snap_up(f) ==
    LET n == (f + TEMPORAL_COMPRESSION - 2) \div TEMPORAL_COMPRESSION IN
    Max(1, n * TEMPORAL_COMPRESSION + 1)

\* def snap(f)
snap(f) ==
    LET n == (f - 1) \div TEMPORAL_COMPRESSION IN
    Max(1, n * TEMPORAL_COMPRESSION + 1)

\* The quotient taken the wrong way round: bytes_per_frame / vram_budget.
FramesInBudget_swapped(vram, margin, tokens, hidden_dim) ==
    (tokens * hidden_dim)
        \div Max(1, MulDivFloor(vram * margin, Mi, 100 * TENSOR_COPIES * 2))

\* int(vram_budget / bytes_per_frame) with
\*   vram_budget     = total_vram * safety_margin = vram * 2^20 * margin / 100
\*   bytes_per_frame = TENSOR_COPIES * spatial_tokens * hidden_dim * 2
\* as floor(floor(vram_budget / (TENSOR_COPIES * 2)) / (tokens * hidden_dim)),
\* for tokens * hidden_dim > 0 and margin >= 0.
FramesInBudget(vram, margin, tokens, hidden_dim) ==
    MulDivFloor(vram * margin, Mi, 100 * TENSOR_COPIES * 2)
        \div (tokens * hidden_dim)

\* max_physical_frames of the `if dim_detected:` branch.
LatentPhysicalFrames(vram, margin, tokens, hidden_dim) ==
    LET max_latent_frames == Max(1, FramesInBudget(vram, margin, tokens, hidden_dim))
    IN (max_latent_frames - 1) * TEMPORAL_COMPRESSION + 1

\* max_physical_frames of the `else:` branch.
GenericPhysicalFrames(vram, margin, tokens, hidden_dim) ==
    Max(1, FramesInBudget(vram, margin, tokens, hidden_dim))

\* Only attribute hits count as detected, a parameter estimate does not.
DimDetected_hitsonly(info) ==
    /\ info.hidden_dim # None
    /\ info.debug_lines[1].key[1] # "param count estimate"

\* dim_detected = hidden_dim is not None
DimDetected(info) == info.hidden_dim # None

max_physical_frames(dim_detected, vram, margin, tokens, hidden_dim) ==
    IF dim_detected
    THEN LatentPhysicalFrames(vram, margin, tokens, hidden_dim)
    ELSE GenericPhysicalFrames(vram, margin, tokens, hidden_dim)

\* actual_frames = snap(min(requested_frames, max_physical_frames))
actual_frames(dim_detected, vram, margin, tokens, hidden_dim, requested) ==
    snap(Min(requested,
             max_physical_frames(dim_detected, vram, margin, tokens, hidden_dim)))

NoInfo ==
    [raised |-> FALSE, exc |-> "", model_name |-> "", hidden_dim |-> None,
     debug_lines |-> <<>>]

\* The returned tuple (width, height, frames, fps, duration), the duration
\* kept as the quotient num / den.
Result(width, height, frames, fps, num, den) ==
    [width |-> width, height |-> height, frames |-> frames, fps |-> fps,
     duration |-> [num |-> num, den |-> den]]

NoResult == Result(0, 0, 0, 0, 0, 1)

\* The locals of execute at the point where it ends.
Locals(requested, info, dim_detected, hidden_dim, max_physical) ==
    [requested_frames |-> requested, info |-> info,
     dim_detected |-> dim_detected, hidden_dim |-> hidden_dim,
     max_physical_frames |-> max_physical]

\* How a call of execute ends: end is "return" or "raise".
Outcome(end, exc, text, result, l) ==
    [end |-> end, exc |-> exc, text |-> text, result |-> result,
     requested_frames |-> l.requested_frames, info |-> l.info,
     dim_detected |-> l.dim_detected, hidden_dim |-> l.hidden_dim,
     max_physical_frames |-> l.max_physical_frames]

execute(width, height, dur10, fps, margin, cuda, heap, model) ==
    LET requested == requested_frames(dur10, fps) IN
    IF ~cuda.available
    THEN \* float(duration) is returned unchanged
         Outcome("return", "", "no frame limit applied",
                 Result(width, height, requested, fps, dur10, 10),
                 Locals(requested, NoInfo, FALSE, 0, 0))
    ELSE
    LET info == _get_model_info(heap, model) IN
    IF info.raised
    THEN Outcome("raise", info.exc, "", NoResult,
                 Locals(requested, info, FALSE, 0, 0))
    ELSE
    LET dim_detected == DimDetected(info)
        hidden_dim == IF dim_detected THEN info.hidden_dim.v ELSE FALLBACK_DIM
        tokens == spatial_tokens(width, height)
    IN
    IF tokens * hidden_dim = 0
    THEN \* vram_budget / 0
         Outcome("raise", "ZeroDivisionError", "", NoResult,
                 Locals(requested, info, dim_detected, hidden_dim, 0))
    ELSE
    LET max_physical == max_physical_frames(dim_detected, cuda.vram, margin,
                                            tokens, hidden_dim)
        frames == actual_frames(dim_detected, cuda.vram, margin, tokens,
                                hidden_dim, requested)
        l == Locals(requested, info, dim_detected, hidden_dim, max_physical)
    IN
    IF fps = 0
    THEN \* (actual_frames - 1) / fps
         Outcome("raise", "ZeroDivisionError", "", NoResult, l)
    ELSE Outcome("return", "", "capped",
                 Result(width, height, frames, fps, frames - 1, fps), l)

(***************************************************************************)
(* The handles a call may receive: a ModelPatcher-like wrapper (object 1)  *)
(* whose "model" leads to a base model (2), whose "diffusion_model" leads  *)
(* to the network (3) with an optional sub-network (4); 5 and 6 are the    *)
(* configuration objects of 2 and 3.                                       *)
(***************************************************************************)
\* An object: its class name, the attribute names it defines (a name that
\* resolves nowhere is left out), its truth value and its parameters() method.
PyObject(cls, slots, truth, params) ==
    [cls |-> cls,
     slots |-> [n \in {a \in DOMAIN slots : slots[a] # Missing} |-> slots[n]],
     truth |-> truth, params |-> params]

NoParams == [kind |-> "missing", numels |-> <<>>]
Params(numels) == [kind |-> "list", numels |-> numels]
ParamsRaise == [kind |-> "raises", numels |-> <<>>]

\* Tensor sizes in Mi elements.
ParamChoices ==
    {NoParams, ParamsRaise, Params(<<>>), Params(<<1>>), Params(<<1300, 54>>),
     Params(<<14000>>), Params(<<30000, 2000>>)}

WrapChoices ==
    {Inst(Obj(2)), Missing, Hook(Obj(2)), Raise("AttributeError"),
     Raise("RuntimeError")}

InnerChoices == {Inst(Obj(3)), Missing}

BaseDimChoices == {Missing, Inst(IntV(1024))}

NetDimChoices ==
    {Missing, Inst(IntV(63)), Inst(IntV(64)), Inst(IntV(1536)),
     Inst(IntV(32768)), Inst(IntV(32769)), Prop(IntV(1536)),
     Raise("RuntimeError"), Hook(IntV(1536)), Inst(FloatV(1536)), Inst(StrV)}

NetDim2Choices == {Missing, Cls(IntV(5120))}

\* The sub-network: how "transformer" resolves on 3, the class of 4 and its
\* hidden_size.
SubChoices ==
    {[slot |-> Missing, cls |-> "Blocks", dim |-> Missing],
     [slot |-> Raise("RuntimeError"), cls |-> "Blocks", dim |-> Missing],
     [slot |-> Inst(Obj(4)), cls |-> "Blocks", dim |-> Missing],
     [slot |-> Inst(Obj(4)), cls |-> "Blocks", dim |-> Inst(IntV(2048))],
     [slot |-> Inst(Obj(4)), cls |-> "WanModel", dim |-> Inst(IntV(2048))]}

\* The configuration object of 3: how "config" resolves, its truth value and
\* its hidden_size.
CfgChoices ==
    {[slot |-> Missing, truth |-> "true", dim |-> Missing],
     [slot |-> Inst(Obj(6)), truth |-> "true", dim |-> Missing],
     [slot |-> Inst(Obj(6)), truth |-> "true", dim |-> Inst(IntV(4096))],
     [slot |-> Inst(Obj(6)), truth |-> "true", dim |-> Inst(IntV(100000))],
     [slot |-> Inst(Obj(6)), truth |-> "false", dim |-> Inst(IntV(4096))],
     [slot |-> Inst(Obj(6)), truth |-> "raises", dim |-> Inst(IntV(4096))]}

Shapes ==
    [wrap : WrapChoices, inner : InnerChoices, base_dim : BaseDimChoices,
     net_dim : NetDimChoices, net_dim2 : NetDim2Choices, sub : SubChoices,
     cfg : CfgChoices, params : ParamChoices]

MkHeap(c) ==
    (1 :> PyObject("ModelPatcher", "model" :> c.wrap, "true", NoParams))
    @@ (2 :> PyObject("BaseModel",
                      ("diffusion_model" :> c.inner)
                      @@ ("model_config" :> Inst(Obj(5)))
                      @@ ("hidden_size" :> c.base_dim),
                      "true", c.params))
    @@ (3 :> PyObject("WanModel",
                      ("hidden_size" :> c.net_dim) @@ ("dim" :> c.net_dim2)
                      @@ ("transformer" :> c.sub.slot)
                      @@ ("config" :> c.cfg.slot),
                      "true", c.params))
    @@ (4 :> PyObject(c.sub.cls, "hidden_size" :> c.sub.dim, "true", NoParams))
    @@ (5 :> PyObject("ModelConfig", "width" :> Inst(StrV), "true", NoParams))
    @@ (6 :> PyObject("Config", "hidden_size" :> c.cfg.dim, c.cfg.truth,
                      NoParams))

\* MkHeap(c) for every shape c
Heaps == {MkHeap(c) : c \in Shapes}

\* The handles given to execute: one network per way the hidden dimension
\* can be obtained (direct hit, config hit, parameter estimate, none, failure).
NoSub == [slot |-> Missing, cls |-> "Blocks", dim |-> Missing]
NoCfg == [slot |-> Missing, truth |-> "true", dim |-> Missing]

ExecShape(net_dim, cfg, params) ==
    [wrap |-> Inst(Obj(2)), inner |-> Inst(Obj(3)), base_dim |-> Missing,
     net_dim |-> net_dim, net_dim2 |-> Missing, sub |-> NoSub, cfg |-> cfg,
     params |-> params]

ExecShapes ==
    {ExecShape(Inst(IntV(d)), NoCfg, NoParams) : d \in {64, 1536, 32768}}
    \cup {ExecShape(Inst(IntV(32769)),
                    [slot |-> Inst(Obj(6)), truth |-> t,
                     dim |-> Inst(IntV(4096))], NoParams) :
            t \in {"true", "raises"}}
    \cup {ExecShape(Missing, NoCfg, p) :
            p \in {NoParams, Params(<<1>>), Params(<<1300, 54>>),
                   Params(<<30000, 2000>>)}}

ExecHeaps == {MkHeap(c) : c \in ExecShapes}

\* The objects that exist when no handle is connected (model = None).
BareShape == ExecShape(Missing, NoCfg, NoParams)

(***************************************************************************)
(* The arguments of execute.                                               *)
(***************************************************************************)
Widths == {4, 8, 832}
Heights == {4, 8, 480}
FpsChoices == (-1 .. MaxFps) \cup {16}
Dur10Choices == (1 .. MaxDur10) \cup {100}
MarginChoices == {0, 50, 95, 100, 105}
NoCuda == [available |-> FALSE, vram |-> 0]
Cuda(vram) == [available |-> TRUE, vram |-> vram]
CudaChoices == {NoCuda} \cup {Cuda(2 ^ k) : k \in {6, 10, MaxVramLog2}}

NoArgs ==
    [width |-> 0, height |-> 0, dur10 |-> 0, fps |-> 0, margin |-> 0,
     cuda |-> NoCuda]

Requests ==
    [width : Widths, height : Heights, dur10 : Dur10Choices, fps : FpsChoices,
     margin : MarginChoices, cuda : CudaChoices]

NoOut == Outcome("none", "", "", NoResult, Locals(0, NoInfo, FALSE, 0, 0))

(***************************************************************************)
(* One call.                                                               *)
(***************************************************************************)
VARIABLES pc, op, args, heap, model, info, out

vars == <<pc, op, args, heap, model, info, out>>

Init ==
    /\ pc = "call"
    /\ info = NoInfo
    /\ out = NoOut
    /\ \/ /\ op = "_get_model_info"
          /\ args = NoArgs
          /\ \/ heap \in Heaps /\ model = Obj(1)
             \/ heap = MkHeap(BareShape) /\ model = None
       \/ /\ op = "execute"
          /\ \/ heap \in ExecHeaps /\ model = Obj(1)
             \/ heap = MkHeap(BareShape) /\ model = None
          /\ args \in Requests

GetModelInfo ==
    /\ pc = "call" /\ op = "_get_model_info"
    /\ info' = _get_model_info(heap, model)
    /\ pc' = "done"
    /\ UNCHANGED <<op, args, heap, model, out>>

Execute ==
    /\ pc = "call" /\ op = "execute"
    /\ out' = execute(args.width, args.height, args.dur10, args.fps,
                      args.margin, args.cuda, heap, model)
    /\ pc' = "done"
    /\ UNCHANGED <<op, args, heap, model, info>>

Next == GetModelInfo \/ Execute

Spec == Init /\ [][Next]_vars

(***************************************************************************)
(* Properties.                                                             *)
(***************************************************************************)
\* The numeric preconditions of a request: width >= 8, height >= 8, fps > 0,
\* duration > 0, safety_margin in (0, 1].
Valid(a) ==
    /\ a.width >= 8 /\ a.height >= 8 /\ a.fps > 0 /\ a.dur10 > 0
    /\ a.margin > 0 /\ a.margin <= 100

Returned == pc = "done" /\ op = "execute" /\ out.end = "return"

\* max(1, round(duration * fps) + 1), written out.
Requested(a) ==
    LET r == RoundHalfEven(a.dur10 * a.fps, 10) + 1 IN IF r >= 1 THEN r ELSE 1

\* C1: for every valid request, with or without device capacity, the frame
\* count execute returns satisfies 1 <= capped_frames <= requested_frames.
C1_FramesWithinRequested ==
    (Returned /\ Valid(args)) =>
        /\ 1 <= out.result.frames
        /\ out.result.frames <= Requested(args)

\* C1 witness: a valid request on the capacity-present path whose frame count
\* was cut below the requested one but stays above one.
C1_Witness ==
    /\ Returned /\ Valid(args) /\ args.cuda.available
    /\ out.max_physical_frames < Requested(args)
    /\ 1 < out.result.frames /\ out.result.frames < Requested(args)

\* C2: for every valid request, on every path of execute, the returned frame
\* count satisfies (capped_frames - 1) mod STRIDE = 0.
C2_StrideAligned ==
    (Returned /\ Valid(args)) =>
        (out.result.frames - 1) % TEMPORAL_COMPRESSION = 0

\* C3: on every path of execute the returned duration equals
\* (returned frame count - 1) / fps.
C3_DurationMatchesFrames ==
    (Returned /\ Valid(args)) =>
        out.result.duration.num * out.result.fps
            = (out.result.frames - 1) * out.result.duration.den

\* C4: a request violating a numeric precondition ends in an input-validation
\* error; it neither divides by zero nor returns a result.
C4_InvalidRejected ==
    (pc = "done" /\ op = "execute" /\ ~Valid(args)) =>
        /\ out.end = "raise"
        /\ out.exc = "ValueError"

\* C5: without device capacity execute applies no limit: the returned frame
\* count is max(1, round(duration * fps) + 1) exactly, for every handle and
\* every safety_margin.
C5_NoLimitWithoutCuda ==
    (pc = "done" /\ op = "execute" /\ ~args.cuda.available) =>
        /\ out.end = "return"
        /\ out.result.frames = Requested(args)

\* C5 witness: a call without device capacity, with a handle connected, that
\* returned a frame count the stride snapping would have changed.
C5_Witness ==
    /\ Returned /\ Valid(args) /\ ~args.cuda.available /\ model # None
    /\ out.result.frames = Requested(args)
    /\ out.result.frames > 1
    /\ (out.result.frames - 1) % TEMPORAL_COMPRESSION # 0

\* Where a returned hidden_dim came from, read off the debug lines.
Source(i) ==
    IF i.hidden_dim = None THEN "none"
    ELSE IF i.debug_lines[1].key[1] = "param count estimate"
    THEN "parameter-estimate"
    ELSE IF i.debug_lines[1].key[2] = "" THEN "direct-attribute"
    ELSE "nested-config"

Introspected == pc = "done" /\ op = "_get_model_info"

\* C6: _get_model_info never raises, for any handle: an absent handle gives
\* hidden_dim absent with an empty trace, and a failing accessor, attribute
\* read, property getter, truth test or parameter enumeration is absorbed.
C6_NeverRaises ==
    Introspected =>
        /\ ~info.raised
        /\ model = None => (info.hidden_dim = None /\ info.debug_lines = <<>>)

\* C7: whenever _get_model_info returns a hidden_dim, by any path, it lies in
\* [64, 32768]; an attribute hit is the attribute's own value (out-of-range
\* values are skipped, never clamped) and no out-of-range value is recorded.
C7_HiddenDimInRange ==
    (Introspected /\ ~info.raised /\ info.hidden_dim # None) =>
        /\ info.hidden_dim.t = "int"
        /\ DIM_MIN <= info.hidden_dim.v /\ info.hidden_dim.v <= DIM_MAX
        /\ \A i \in DOMAIN info.debug_lines :
              DIM_MIN <= info.debug_lines[i].val
              /\ info.debug_lines[i].val <= DIM_MAX
        /\ Source(info) # "parameter-estimate" =>
              \E id \in DOMAIN heap : \E a \in Range(DIM_ATTRS) :
                  SlotOf(heap, id, a).val = info.hidden_dim

\* C7 witness: the network's direct hidden_size is an out-of-range integer
\* and the call still returned an in-range hidden_dim found elsewhere.
C7_Witness ==
    /\ Introspected /\ ~info.raised /\ info.hidden_dim # None
    /\ SlotOf(heap, 3, "hidden_size").val \in {IntV(63), IntV(32769)}
    /\ info.model_name = "WanModel"
    /\ info.hidden_dim.v \in DIM_MIN .. DIM_MAX

\* Capacities compared against, in MiB.
VramProbes == {2 ^ k : k \in 0 .. MaxVramLog2}

\* C8: two valid requests that differ only in device capacity: the one with
\* the larger capacity never gets fewer capped frames.
C8_MonotoneInCapacity ==
    (Returned /\ Valid(args) /\ args.cuda.available) =>
        \A v \in VramProbes :
            v <= args.cuda.vram =>
                actual_frames(out.dim_detected, v, args.margin,
                              spatial_tokens(args.width, args.height),
                              out.hidden_dim, Requested(args))
                    <= out.result.frames

\* C8 witness: a valid capped call for which some smaller capacity gives
\* strictly fewer frames.
C8_Witness ==
    /\ Returned /\ Valid(args) /\ args.cuda.available
    /\ \E v \in VramProbes :
          /\ v < args.cuda.vram
          /\ actual_frames(out.dim_detected, v, args.margin,
                           spatial_tokens(args.width, args.height),
                           out.hidden_dim, Requested(args))
                < out.result.frames

\* Hidden dimensions a handle can yield through the given source.
DimProbes(source) ==
    IF source = "parameter-estimate" THEN Range(standards)
    ELSE Range(standards) \cup {DIM_MIN, 96, 1000, 20000, DIM_MAX}

\* C9: two valid requests with capacity present that differ only in
\* hidden_dim (same source): the one with the larger hidden_dim never gets
\* more capped frames.
C9_MonotoneInHiddenDim ==
    (Returned /\ Valid(args) /\ args.cuda.available /\ out.dim_detected) =>
        \A d \in DimProbes(Source(out.info)) :
            d >= out.hidden_dim =>
                actual_frames(out.dim_detected, args.cuda.vram, args.margin,
                              spatial_tokens(args.width, args.height),
                              d, Requested(args))
                    <= out.result.frames

\* C9 witness: a valid capped call with a detected dimension for which some
\* larger hidden_dim gives strictly fewer frames.
C9_Witness ==
    /\ Returned /\ Valid(args) /\ args.cuda.available /\ out.dim_detected
    /\ \E d \in DimProbes(Source(out.info)) :
          /\ d > out.hidden_dim
          /\ actual_frames(out.dim_detected, args.cuda.vram, args.margin,
                           spatial_tokens(args.width, args.height),
                           d, Requested(args))
                < out.result.frames

\* floor(budget_bytes / (TENSOR_COPIES * spatial_tokens * hidden_dim * 2)) of
\* a finished call.
BudgetQuotient ==
    FramesInBudget(args.cuda.vram, args.margin,
                   spatial_tokens(args.width, args.height), out.hidden_dim)

Budgeted ==
    /\ pc = "done" /\ op = "execute" /\ Valid(args) /\ args.cuda.available
    /\ out.end = "return"

\* C10 as stated: when the hidden dimension came from the parameter-count
\* estimate or from the fixed fallback, max_physical_frames is
\* max(1, floor(budget_bytes / bytes_per_frame)), not the latent-frame formula.
C10_EstimateUsesGenericFormula ==
    (Budgeted /\ Source(out.info) \in {"parameter-estimate", "none"}) =>
        out.max_physical_frames = Max(1, BudgetQuotient)

\* C10 amended: with the fixed fallback (no hidden_dim returned) the hidden
\* dimension is 1536 and max_physical_frames is
\* max(1, floor(budget_bytes / bytes_per_frame)); with a parameter-count
\* estimate, as with an attribute hit, it is the latent-frame formula
\* (max(1, floor(budget_bytes / bytes_per_latent_frame)) - 1) * STRIDE + 1.
C10_FallbackUsesGenericFormula ==
    Budgeted =>
        IF Source(out.info) = "none"
        THEN /\ out.hidden_dim = FALLBACK_DIM
             /\ out.max_physical_frames = Max(1, BudgetQuotient)
        ELSE /\ out.hidden_dim = out.info.hidden_dim.v
             /\ out.max_physical_frames
                    = (Max(1, BudgetQuotient) - 1) * TEMPORAL_COMPRESSION + 1

\* C10 witness: a call with a handle whose dimension could not be found, the
\* budget holding several frames, so that the two formulas differ.
C10_Witness ==
    /\ Budgeted /\ model # None /\ Source(out.info) = "none"
    /\ BudgetQuotient >= 2
    /\ out.max_physical_frames = BudgetQuotient

\* The in-range integer values met on x when DIM_ATTRS is read in order.
RECURSIVE DimHits(_, _, _)
DimHits(hp, x, i) ==
    IF i > Len(DIM_ATTRS) THEN <<>>
    ELSE LET val == _safe_getattr(hp, x, DIM_ATTRS[i]) IN
         (IF val.t = "int" /\ val.v >= DIM_MIN /\ val.v <= DIM_MAX
          THEN <<val.v>> ELSE <<>>)
         \o DimHits(hp, x, i + 1)

\* The hits met through the configuration objects of obj that are truthy.
RECURSIVE CfgHits(_, _, _)
CfgHits(hp, obj, j) ==
    IF j > Len(CFG_ATTRS) THEN <<>>
    ELSE LET cfg == _safe_getattr(hp, obj, CFG_ATTRS[j]) IN
         (IF Truth(hp, cfg) = "true" THEN DimHits(hp, cfg, 1) ELSE <<>>)
         \o CfgHits(hp, obj, j + 1)

\* Every hit in the order the scan meets it: object by object, the direct
\* attributes of an object before its configuration objects.
RECURSIVE HitsInOrder(_, _, _)
HitsInOrder(hp, search, k) ==
    IF k > Len(search) THEN <<>>
    ELSE DimHits(hp, search[k], 1) \o CfgHits(hp, search[k], 1)
         \o HitsInOrder(hp, search, k + 1)

\* The search set of the finished call.
SearchSet ==
    LET m == Unwrap(heap, model, 1).m IN BuildSearch(heap, m, <<m>>, 1).search

Found == Introspected /\ model # None /\ ~info.raised

\* C11: the hidden_dim returned by _get_model_info is the value of the first
\* in-range integer hit met when the search set is scanned in order; a later
\* hit never replaces it, whatever the class names of the objects.
C11_FirstHitWins ==
    (Found /\ HitsInOrder(heap, SearchSet, 1) # <<>>) =>
        info.hidden_dim = IntV(HitsInOrder(heap, SearchSet, 1)[1])

\* C12: the nested-configuration scan is used only when the direct-attribute
\* scan found nothing on every object of the search set: if any object of the
\* search set has an in-range direct width attribute, the returned hidden_dim
\* is a direct-attribute value.
C12_DirectBeforeConfig ==
    (Found /\ \E k \in DOMAIN SearchSet : DimHits(heap, SearchSet[k], 1) # <<>>) =>
        /\ Source(info) = "direct-attribute"
        /\ \E k \in DOMAIN SearchSet :
              info.hidden_dim.v \in Range(DimHits(heap, SearchSet[k], 1))

\* The object the handle's first present accessor leads to, the handle itself
\* when it has none.
RECURSIVE FirstPresent(_, _, _)
FirstPresent(hp, x, i) ==
    IF i > Len(ACCESSORS) THEN x
    ELSE LET g == getattr(hp, x, ACCESSORS[i]) IN
         IF g.val # None THEN g.val ELSE FirstPresent(hp, x, i + 1)

\* C13: unwrapping stops at the first accessor that is present: when the
\* handle has a non-null "model", the object named and searched is
\* handle.model, not handle.model.diffusion_model.
C13_UnwrapStopsAtFirst ==
    (Found /\ getattr(heap, model, "model").val # None) =>
        /\ info.model_name = TypeName(heap, FirstPresent(heap, model, 1))
        /\ SearchSet[1] = getattr(heap, model, "model").val

====
